---- MODULE Spec2Model ----
(* A model of demes.py: the entities Epoch, Migration, Pulse and Deme, the     *)
(* DemeGraph builder (deme, migration, symmetric_migration, pulse, subgraph)   *)
(* and the canonicalisation asdict_compact.  A DemeGraph is the four variables *)
(* demes, deme_map, migrations and pulses; every builder method is one action. *)
(* An operation is a function from a graph and its arguments to the graph it   *)
(* leaves behind and the way it ended ("ok" or the exception it raised).       *)
EXTENDS Integers, Sequences, FiniteSets, TLC

VARIABLES demes, deme_map, migrations, pulses, default_Ne, pre, last, ncalls

vars == <<demes, deme_map, migrations, pulses, default_Ne, pre, last, ncalls>>

(* ------------------------------ bounds -------------------------------- *)

\* Finite times are 0..MaxTime.
MaxTime == 1
\* Population sizes are 1..MaxSize.
MaxSize == 2
\* Builder calls made on one graph.
MaxCalls == 3
\* Builder calls made on one graph when demes get additional epochs.
MaxDemeCalls == 2
\* Additional epochs passed to one deme() call.
MaxEpochs == 1
\* Demes added before symmetric_migration() is called.
MaxDemes == 3
\* Proportions are the fractions k/PropDen, k in 0..PropDen.
PropDen == 2

(* ------------------------------ values -------------------------------- *)

\* Python's None, for a number that was not given.
None == -1
\* Python's None, for a deme id that was not given.
NoneId == "None"
\* float("inf"): a number larger than every time, size and rate of the model.
Inf == 1000

IDs == {"A", "B", "C"}

Min(a, b) == IF a <= b THEN a ELSE b
Max(a, b) == IF a >= b THEN a ELSE b

\* A failed call keeps the graph it was given (nothing was appended).
Raise(g, exc) == [g |-> g, out |-> exc]
Return(g) == [g |-> g, out |-> "ok"]

(* ---------------------------- validators ------------------------------ *)

positive(value) == value > 0
non_negative(value) == value >= 0
finite(value) == value # Inf
unit_interval(num, den) == 0 <= num /\ num <= den
\* optional(f): the validator runs only on a value that is not None.
optional(value, valid) == value = None \/ valid

(* ------------------------------ Epoch --------------------------------- *)

\* Epoch(start_time, end_time, initial_size, final_size): the field validators,
\* then __attrs_post_init__.
EpochValid(s, e, i, f) ==
    /\ non_negative(s) /\ finite(s)
    /\ optional(e, non_negative(e))
    /\ optional(i, positive(i) /\ finite(i))
    /\ optional(f, positive(f) /\ finite(f))
    /\ ~(i = None /\ f = None)
    /\ ~(s # None /\ e # None /\ s >= e)

EpochNew(s, e, i, f) ==
    [start_time |-> s, end_time |-> e, initial_size |-> i,
     final_size |-> IF f = None THEN i ELSE f]

(* ------------------------------- Deme --------------------------------- *)

DemeValid(id, ancestor, epochs) == Len(epochs) = 1 /\ id # ancestor

DemeNew(id, ancestor, epochs) == [id |-> id, ancestor |-> ancestor, epochs |-> epochs]

\* Deme.add_epoch raises when the epoch starts before the previous one.
add_epoch_ok(epochs, epoch) == ~(epoch.start_time < epochs[Len(epochs)].start_time)

add_epoch(epochs, epoch) ==
    LET n == Len(epochs)
        prev_epoch == epochs[n]
        end_time == IF epoch.end_time = None THEN prev_epoch.end_time ELSE epoch.end_time
        initial_size == IF epoch.initial_size = None THEN prev_epoch.final_size
                        ELSE epoch.initial_size
        final_size == IF epoch.final_size = None THEN initial_size ELSE epoch.final_size
    IN  Append([epochs EXCEPT ![n].end_time = epoch.start_time],
               [start_time |-> epoch.start_time, end_time |-> end_time,
                initial_size |-> initial_size, final_size |-> final_size])

\* The loop of deme(): add_epoch on each epoch in turn; <<>> stands for the
\* ValueError of add_epoch (a deme's epoch list is never empty).
RECURSIVE add_epochs(_, _)
add_epochs(epochs, more) ==
    IF more = <<>> THEN epochs
    ELSE IF ~add_epoch_ok(epochs, Head(more)) THEN <<>>
    ELSE add_epochs(add_epoch(epochs, Head(more)), Tail(more))

deme_start_time(d) == d.epochs[1].start_time
deme_end_time(d) == d.epochs[Len(d.epochs)].end_time

(* ----------------------------- DemeGraph ------------------------------ *)

EmptyGraph == [demes |-> <<>>, deme_map |-> <<>>, migrations |-> <<>>, pulses |-> <<>>]

\* __contains__ and __getitem__: through the id index.
Contains(g, deme_id) == deme_id \in DOMAIN g.deme_map
GetItem(g, deme_id) == g.demes[g.deme_map[deme_id]]

\* self._deme_map[deme.id] = deme; self.demes.append(deme)
Register(g, d) ==
    [g EXCEPT !.demes = Append(g.demes, d),
              !.deme_map = [i \in DOMAIN g.deme_map \cup {d.id} |->
                              IF i = d.id THEN Len(g.demes) + 1 ELSE g.deme_map[i]]]

deme(g, dNe, id, ancestor, start_time, end_time, initial_size, final_size, epochs) ==
    LET isize == IF initial_size = None THEN dNe ELSE initial_size
        fsize == IF final_size = None THEN isize ELSE final_size
        etime == IF ancestor # NoneId /\ Contains(g, ancestor)
                 THEN GetItem(g, ancestor).epochs[1].start_time ELSE end_time
        all == add_epochs(<<EpochNew(start_time, etime, isize, fsize)>>, epochs)
    IN  IF isize = None THEN Raise(g, "ValueError")
        ELSE IF ancestor # NoneId /\ ~Contains(g, ancestor) THEN Raise(g, "ValueError")
        ELSE IF ~EpochValid(start_time, etime, isize, fsize) THEN Raise(g, "ValueError")
        ELSE IF ~DemeValid(id, ancestor, <<EpochNew(start_time, etime, isize, fsize)>>)
             THEN Raise(g, "ValueError")
        ELSE IF all = <<>> THEN Raise(g, "ValueError")
        ELSE Return(Register(g, DemeNew(id, ancestor, all)))

\* check_time_intersection's interval: where both demes exist.
time_lo(g, deme_id1, deme_id2) ==
    Max(deme_start_time(GetItem(g, deme_id1)), deme_start_time(GetItem(g, deme_id2)))
time_hi(g, deme_id1, deme_id2) ==
    Min(deme_end_time(GetItem(g, deme_id1)), deme_end_time(GetItem(g, deme_id2)))

\* check_time_intersection returns (no ValueError) for this time.
check_time_intersection(g, deme_id1, deme_id2, time, closed) ==
    LET lo == time_lo(g, deme_id1, deme_id2)
        hi == time_hi(g, deme_id1, deme_id2)
    IN  time # None =>
            ~(\/ (~closed /\ ~(lo <= time /\ time < hi))
              \/ (closed /\ ~(lo <= time /\ time <= hi)))

\* Migration(source, dest, time, rate): the validators and __attrs_post_init__.
MigrationValid(source, dest, time, rate) ==
    /\ non_negative(time) /\ finite(time)
    /\ non_negative(rate) /\ finite(rate)
    /\ source # dest

MigrationNew(source, dest, time, rate) ==
    [source |-> source, dest |-> dest, time |-> time, rate |-> rate]

\* Pulse(source, dest, time, proportion); a proportion is the fraction num/den.
PulseValid(source, dest, time, proportion) ==
    /\ non_negative(time) /\ finite(time)
    /\ unit_interval(proportion.num, proportion.den)
    /\ source # dest

PulseNew(source, dest, time, proportion) ==
    [source |-> source, dest |-> dest, time |-> time, proportion |-> proportion]

migration(g, source, dest, rate, start_time, end_time) ==
    LET start == IF start_time = None THEN time_lo(g, source, dest) ELSE start_time
        g1 == [g EXCEPT !.migrations = Append(@, MigrationNew(source, dest, start, rate))]
        g2 == [g1 EXCEPT !.migrations = Append(@, MigrationNew(source, dest, end_time, 0))]
    IN  IF ~Contains(g, source) \/ ~Contains(g, dest) THEN Raise(g, "ValueError")
        ELSE IF ~check_time_intersection(g, source, dest, start_time, FALSE)
             THEN Raise(g, "ValueError")
        ELSE IF ~MigrationValid(source, dest, start, rate) THEN Raise(g, "ValueError")
        ELSE IF end_time = None THEN Return(g1)
        ELSE IF ~check_time_intersection(g1, source, dest, end_time, FALSE)
             THEN Raise(g1, "ValueError")
        ELSE IF ~MigrationValid(source, dest, end_time, 0) THEN Raise(g1, "ValueError")
        ELSE Return(g2)

\* itertools.combinations(demes, 2) in place of permutations: each unordered
\* pair once, in one direction only.
combinations2(ids) ==
    LET n == Len(ids)
        pairs == {p \in (1..n) \X (1..n) : p[1] < p[2]}
        rank(p) == Cardinality({q \in pairs : q[1] < p[1] \/ (q[1] = p[1] /\ q[2] < p[2])})
    IN  [k \in 1..Cardinality(pairs) |->
            LET p == CHOOSE q \in pairs : rank(q) = k - 1
            IN  <<ids[p[1]], ids[p[2]]>>]

\* itertools.permutations(demes, 2): the pairs of positions (i, j), i # j, in
\* lexicographic order, as pairs of the ids at those positions.
permutations2(ids) ==
    LET n == Len(ids)
        pos(k) == <<((k - 1) \div (n - 1)) + 1,
                    LET j == ((k - 1) % (n - 1)) + 1
                    IN  IF j >= ((k - 1) \div (n - 1)) + 1 THEN j + 1 ELSE j>>
    IN  [k \in 1..(n * (n - 1)) |-> <<ids[pos(k)[1]], ids[pos(k)[2]]>>]

\* The loop of symmetric_migration(): the first migration() that raises ends it,
\* with what the earlier ones appended left in place.
RECURSIVE migration_loop(_, _, _, _, _)
migration_loop(g, pairs, rate, start_time, end_time) ==
    IF pairs = <<>> THEN Return(g)
    ELSE LET r == migration(g, Head(pairs)[1], Head(pairs)[2], rate, start_time, end_time)
         IN  IF r.out # "ok" THEN r
             ELSE migration_loop(r.g, Tail(pairs), rate, start_time, end_time)

symmetric_migration(g, ids, rate, start_time, end_time) ==
    IF Len(ids) < 2 THEN Raise(g, "ValueError")
    ELSE migration_loop(g, permutations2(ids), rate, start_time, end_time)

pulse(g, source, dest, proportion, time) ==
    IF ~Contains(g, source) \/ ~Contains(g, dest) THEN Raise(g, "ValueError")
    ELSE IF GetItem(g, source).ancestor = dest \/ GetItem(g, dest).ancestor = source
         THEN Raise(g, "ValueError")
    ELSE IF ~check_time_intersection(g, source, dest, time, TRUE) THEN Raise(g, "ValueError")
    ELSE IF ~PulseValid(source, dest, time, proportion) THEN Raise(g, "ValueError")
    ELSE Return([g EXCEPT !.pulses = Append(@, PulseNew(source, dest, time, proportion))])

RECURSIVE sum(_)
sum(xs) == IF xs = <<>> THEN 0 ELSE Head(xs) + sum(Tail(xs))

RECURSIVE gcd(_, _)
gcd(a, b) == IF b = 0 THEN a ELSE gcd(b, a % b)

\* The quotient num/den (den # 0) as a fraction in lowest terms.
Frac(num, den) == [num |-> num \div gcd(num, den), den |-> den \div gcd(num, den)]

\* The loop of subgraph(): ancestor j gets proportions[j] / sum(proportions[j:]);
\* the division raises ZeroDivisionError when nothing is left to share out, and
\* a pulse() that raises ends the loop, the earlier pulses left in place.
RECURSIVE pulse_loop(_, _, _, _, _)
pulse_loop(g, deme_id, ancestors, proportions, end_time) ==
    IF ancestors = <<>> THEN Return(g)
    ELSE IF sum(proportions) = 0 THEN Raise(g, "ZeroDivisionError")
    ELSE LET p == Frac(Head(proportions), sum(proportions))
             r == pulse(g, deme_id, Head(ancestors), p, end_time)
         IN  IF r.out # "ok" THEN r
             ELSE IF Len(ancestors) = 1 /\ p # Frac(1, 1) THEN Raise(r.g, "AssertionError")
             ELSE pulse_loop(r.g, deme_id, Tail(ancestors), Tail(proportions), end_time)

RECURSIVE max_start_time(_, _)
max_start_time(g, ancestors) ==
    IF Len(ancestors) = 1 THEN deme_start_time(GetItem(g, ancestors[1]))
    ELSE Max(deme_start_time(GetItem(g, ancestors[1])), max_start_time(g, Tail(ancestors)))

\* Proportions are numerators over PropDen: they sum to 1 when the numerators
\* sum to PropDen.
subgraph(g, dNe, deme_id, ancestors, proportions, start_time, end_time, initial_size, final_size, epochs) ==
    IF Len(ancestors) # Len(proportions) THEN Raise(g, "ValueError")
    ELSE IF sum(proportions) # PropDen THEN Raise(g, "ValueError")
    ELSE IF end_time = None /\ \E j \in 1..Len(ancestors) : ~Contains(g, ancestors[j])
         THEN Raise(g, "KeyError")
    ELSE LET etime == IF end_time = None THEN max_start_time(g, ancestors) ELSE end_time
             r == deme(g, dNe, deme_id, NoneId, start_time, etime, initial_size,
                       final_size, epochs)
         IN  IF r.out # "ok" THEN r
             ELSE pulse_loop(r.g, deme_id, ancestors, proportions, etime)

(* --------------------------- asdict_compact --------------------------- *)

\* asdict(): the attrs fields of the graph that the builder fills.
asdict(g) == [demes |-> g.demes, migrations |-> g.migrations, pulses |-> g.pulses]

\* The dict e of one epoch (a field left out is None).
compact_epoch(epochs, j) ==
    LET epoch == epochs[j]
    IN  [start_time |-> IF epoch.start_time > 0 THEN epoch.start_time ELSE None,
         initial_size |->
            IF epoch.initial_size = epoch.final_size THEN epoch.initial_size
            ELSE IF j = 1 \/ j = Len(epochs)
                    \/ epoch.initial_size # epochs[IF j = 1 THEN 1 ELSE j - 1].final_size
                 THEN epoch.initial_size ELSE None,
         final_size |-> IF epoch.initial_size = epoch.final_size THEN None
                        ELSE epoch.final_size]

\* deme_dict (a field left out is None, NoneId or the empty list).
compact_deme(d) ==
    [ancestor |-> d.ancestor,
     start_time |-> IF d.epochs[1].start_time > 0 THEN d.epochs[1].start_time ELSE None,
     initial_size |-> d.epochs[1].initial_size,
     final_size |-> IF d.epochs[1].final_size # d.epochs[1].initial_size
                    THEN d.epochs[1].final_size ELSE None,
     epochs |-> [j \in 1..(Len(d.epochs) - 1) |-> compact_epoch(d.epochs, j + 1)]]

\* d["demes"]: a dict keeps its keys in the order of their first insertion and,
\* for each key, the value inserted last.
compact_demes(ds) ==
    LET first == {k \in 1..Len(ds) : \A l \in 1..(k - 1) : ds[l].id # ds[k].id}
        lastOf(id) == CHOOSE k \in 1..Len(ds) :
                          ds[k].id = id /\ \A l \in (k + 1)..Len(ds) : ds[l].id # id
        nth(n) == CHOOSE k \in first : Cardinality({l \in first : l < k}) = n - 1
    IN  [n \in 1..Cardinality(first) |->
            [id |-> ds[nth(n)].id, deme_dict |-> compact_deme(ds[lastOf(ds[nth(n)].id)])]]

\* The while loop over one (source, dest) group of migrations.
RECURSIVE compact_walk(_, _, _)
compact_walk(m_sublist, lo, hi) ==
    IF m_sublist = <<>> THEN <<>>
    ELSE LET m == Head(m_sublist)
             rest == Tail(m_sublist)
             collapse == rest # <<>> /\ m.rate # 0 /\ rest[1].rate = 0
             entry == [source |-> m.source, dest |-> m.dest, rate |-> m.rate,
                       start_time |-> IF m.time # lo THEN m.time ELSE None,
                       end_time |-> IF collapse /\ rest[1].time # hi
                                    THEN rest[1].time ELSE None]
         IN  <<entry>> \o compact_walk(IF collapse THEN Tail(rest) ELSE rest, lo, hi)

\* m_dict[(source, dest)]: the records of one pair, in the order of the list.
RECURSIVE migration_group(_, _, _)
migration_group(ms, source, dest) ==
    IF ms = <<>> THEN <<>>
    ELSE (IF Head(ms).source = source /\ Head(ms).dest = dest THEN <<Head(ms)>> ELSE <<>>)
         \o migration_group(Tail(ms), source, dest)

\* m_dict: the migrations grouped by (source, dest), groups in the order of
\* their first record; m_list: the walk of each group in turn.
compact_migrations(g) ==
    LET ms == g.migrations
        same(k, l) == ms[k].source = ms[l].source /\ ms[k].dest = ms[l].dest
        first == {k \in 1..Len(ms) : \A l \in 1..(k - 1) : ~same(k, l)}
        nth(n) == CHOOSE k \in first : Cardinality({l \in first : l < k}) = n - 1
        RECURSIVE walks(_)
        walks(n) ==
            IF n > Cardinality(first) THEN <<>>
            ELSE compact_walk(migration_group(ms, ms[nth(n)].source, ms[nth(n)].dest),
                              time_lo(g, ms[nth(n)].source, ms[nth(n)].dest),
                              time_hi(g, ms[nth(n)].source, ms[nth(n)].dest))
                 \o walks(n + 1)
    IN  walks(1)

\* asdict_compact() asserts that the graph has a deme.
asdict_compact(g) ==
    [demes |-> compact_demes(g.demes), migrations |-> compact_migrations(g),
     pulses |-> g.pulses]

(* ------------------- re-expansion of the compact form ------------------ *)

\* The compact form replayed through the builder under the defaulting rules:
\* a field left out takes the builder's default.
expand_epochs(es) ==
    [j \in 1..Len(es) |->
        EpochNew(IF es[j].start_time = None THEN 0 ELSE es[j].start_time, None,
                 es[j].initial_size, es[j].final_size)]

RECURSIVE expand_demes(_, _, _)
expand_demes(g, dNe, entries) ==
    IF entries = <<>> THEN Return(g)
    ELSE LET dd == Head(entries).deme_dict
             r == deme(g, dNe, Head(entries).id, dd.ancestor,
                       IF dd.start_time = None THEN 0 ELSE dd.start_time, Inf,
                       dd.initial_size, dd.final_size, expand_epochs(dd.epochs))
         IN  IF r.out # "ok" THEN r ELSE expand_demes(r.g, dNe, Tail(entries))

RECURSIVE expand_migrations(_, _)
expand_migrations(g, m_list) ==
    IF m_list = <<>> THEN Return(g)
    ELSE LET m == Head(m_list)
             r == migration(g, m.source, m.dest, m.rate, m.start_time, m.end_time)
         IN  IF r.out # "ok" THEN r ELSE expand_migrations(r.g, Tail(m_list))

RECURSIVE expand_pulses(_, _)
expand_pulses(g, ps) ==
    IF ps = <<>> THEN Return(g)
    ELSE LET r == pulse(g, Head(ps).source, Head(ps).dest, Head(ps).proportion,
                        Head(ps).time)
         IN  IF r.out # "ok" THEN r ELSE expand_pulses(r.g, Tail(ps))

expand(d, dNe) ==
    LET r1 == expand_demes(EmptyGraph, dNe, d.demes)
        r2 == expand_migrations(r1.g, d.migrations)
        r3 == expand_pulses(r2.g, d.pulses)
    IN  IF r1.out # "ok" THEN r1 ELSE IF r2.out # "ok" THEN r2 ELSE r3

(* ------------------------------ inputs -------------------------------- *)

Times == 0..MaxTime
Sizes == 1..MaxSize
OptTimes == {None} \cup Times
Rates == {0, 1}

\* Sequences over S of the lengths lo..hi.
SeqsOf(S, lo, hi) == UNION {[1..n -> S] : n \in lo..hi}

\* The Epoch objects a caller can hand to deme(): all that Epoch() constructs.
Epochs ==
    {EpochNew(a[1], a[2], a[3], a[4]) :
        a \in {b \in Times \X ({None, Inf} \cup Times) \X ({None} \cup Sizes)
                       \X ({None} \cup Sizes) : EpochValid(b[1], b[2], b[3], b[4])}}

(* ------------------------------ actions ------------------------------- *)

\* Deme ids are interchangeable: a new deme takes an id already in the graph or
\* the first id not in it (another unused id gives the same graph renamed).
\* Ids that are only referred to range over all of IDs.
IdOrder == <<"A", "B", "C">>
NewIds ==
    DOMAIN deme_map \cup
    {IdOrder[k] : k \in {k \in 1..Len(IdOrder) :
                            /\ IdOrder[k] \notin DOMAIN deme_map
                            /\ \A l \in 1..(k - 1) : IdOrder[l] \in DOMAIN deme_map}}

Graph == [demes |-> demes, deme_map |-> deme_map, migrations |-> migrations,
          pulses |-> pulses]

NoArgs == [id |-> NoneId, refs |-> <<>>, props |-> <<>>, rate |-> None,
           start_time |-> None, end_time |-> None]

\* A call that raised and changed nothing leaves the caller with the graph it
\* had before the call: what can follow is what could follow before it, so the
\* calls after it are taken from there and it does not count as a call made.
Rejected == last.out # "ok" /\ Graph = pre

\* One builder call: the graph becomes the one the call leaves behind; pre and
\* last keep the graph before the call, the way it ended and the arguments the
\* properties speak about.
CanCall(bound) == ncalls < bound /\ ~Rejected

Call(r, op, args) ==
    /\ ncalls' = ncalls + 1
    /\ demes' = r.g.demes
    /\ deme_map' = r.g.deme_map
    /\ migrations' = r.g.migrations
    /\ pulses' = r.g.pulses
    /\ pre' = Graph
    /\ last' = [op |-> op, out |-> r.out, args |-> args]
    /\ UNCHANGED default_Ne

DemeCall(bound, sizes, epoch_lists) ==
    /\ CanCall(bound)
    /\ \E id \in NewIds, ancestor \in IDs \cup {NoneId}, start_time \in Times,
       end_time \in Times \cup {Inf}, initial_size \in sizes, final_size \in sizes,
       epochs \in epoch_lists :
        Call(deme(Graph, default_Ne, id, ancestor, start_time, end_time,
                  initial_size, final_size, epochs),
             "deme",
             [NoArgs EXCEPT !.id = id,
                            !.refs = IF ancestor = NoneId THEN <<>> ELSE <<ancestor>>])

\* deme() with default sizes and no additional epochs, over start times that
\* leave room for a chain of three demes, each ending where the next starts.
ChainTimes == 0..(MaxTime + 1)

ChainDemeCall(bound) ==
    /\ CanCall(bound)
    /\ \E id \in NewIds, ancestor \in IDs \cup {NoneId}, start_time \in ChainTimes,
       end_time \in ChainTimes \cup {Inf} :
        Call(deme(Graph, default_Ne, id, ancestor, start_time, end_time, None, None, <<>>),
             "deme",
             [NoArgs EXCEPT !.id = id,
                            !.refs = IF ancestor = NoneId THEN <<>> ELSE <<ancestor>>])

MigrationCall(bound) ==
    /\ CanCall(bound)
    /\ \E source \in IDs, dest \in IDs, rate \in Rates, start_time \in OptTimes,
       end_time \in OptTimes :
        Call(migration(Graph, source, dest, rate, start_time, end_time),
             "migration",
             [NoArgs EXCEPT !.refs = <<source, dest>>, !.rate = rate,
                            !.start_time = start_time, !.end_time = end_time])

SymmetricMigrationCall(bound) ==
    /\ CanCall(bound)
    /\ \E ids \in SeqsOf(IDs, 0, 3), rate \in Rates, start_time \in OptTimes,
       end_time \in OptTimes :
        Call(symmetric_migration(Graph, ids, rate, start_time, end_time),
             "symmetric_migration",
             [NoArgs EXCEPT !.refs = ids, !.rate = rate,
                            !.start_time = start_time, !.end_time = end_time])

PulseCall(bound) ==
    /\ CanCall(bound)
    /\ \E source \in IDs, dest \in IDs, num \in 0..(PropDen + 1), time \in Times \cup {Inf} :
        Call(pulse(Graph, source, dest, [num |-> num, den |-> PropDen], time),
             "pulse",
             [NoArgs EXCEPT !.refs = <<source, dest>>])

SubgraphCall(bound, sizes, epoch_lists) ==
    /\ CanCall(bound)
    /\ \E deme_id \in NewIds, ancestors \in SeqsOf(IDs, 1, 2),
       proportions \in SeqsOf(0..PropDen, 1, 2), start_time \in Times,
       end_time \in OptTimes \cup {Inf}, initial_size \in sizes, final_size \in sizes,
       epochs \in epoch_lists :
        Call(subgraph(Graph, default_Ne, deme_id, ancestors, proportions, start_time,
                      end_time, initial_size, final_size, epochs),
             "subgraph",
             [NoArgs EXCEPT !.id = deme_id, !.refs = ancestors, !.props = proportions,
                            !.end_time = end_time])

\* check_time_intersection() as a call on the graph: self[deme_id] raises
\* KeyError for an id that is not registered; nothing is assigned to the graph.
check_time_intersection_call(g, deme_id1, deme_id2, time, closed) ==
    IF ~Contains(g, deme_id1) \/ ~Contains(g, deme_id2) THEN Raise(g, "KeyError")
    ELSE IF ~check_time_intersection(g, deme_id1, deme_id2, time, closed)
         THEN Raise(g, "ValueError")
    ELSE Return(g)

\* asdict_compact() that consumes the migration list while it walks it.
asdict_compact_consuming(g) ==
    IF Len(g.demes) = 0 THEN Raise(g, "AssertionError")
    ELSE Return([g EXCEPT !.migrations = <<>>])

\* asdict_compact() as a call on the graph: it asserts that there is a deme,
\* reads the demes, groups the migrations into fresh lists and slices those;
\* nothing is assigned to the graph.
asdict_compact_call(g) ==
    IF Len(g.demes) = 0 THEN Raise(g, "AssertionError") ELSE Return(g)

CheckTimeIntersectionCall(bound) ==
    /\ CanCall(bound)
    /\ \E deme_id1 \in IDs, deme_id2 \in IDs, time \in OptTimes, closed \in BOOLEAN :
          Call(check_time_intersection_call(Graph, deme_id1, deme_id2, time, closed),
               "check_time_intersection",
               [id |-> NoneId, refs |-> <<deme_id1, deme_id2>>, props |-> <<>>,
                rate |-> None, start_time |-> time, end_time |-> None,
                closed |-> closed])

AsdictCompactCall(bound) ==
    /\ CanCall(bound)
    /\ Call(asdict_compact_call(Graph), "asdict_compact", NoArgs)

Init ==
    /\ demes = <<>>
    /\ deme_map = <<>>
    /\ migrations = <<>>
    /\ pulses = <<>>
    /\ default_Ne \in {None, 1}
    /\ pre = EmptyGraph
    /\ last = [op |-> "init", out |-> "ok", args |-> NoArgs]
    /\ ncalls = 0

\* The builder API, on demes of one epoch and the default size.
Next ==
    \/ DemeCall(MaxCalls, {None}, {<<>>})
    \/ MigrationCall(MaxCalls)
    \/ SymmetricMigrationCall(MaxCalls)
    \/ PulseCall(MaxCalls)
    \/ SubgraphCall(MaxCalls, {None}, {<<>>})

Spec == Init /\ [][Next]_vars

\* deme() with explicit sizes and additional epochs, and subgraph().
NextDemes ==
    \/ DemeCall(MaxDemeCalls, {None, MaxSize}, SeqsOf(Epochs, 0, MaxEpochs))
    \/ SubgraphCall(MaxDemeCalls, {None}, {<<>>})

SpecDemes == Init /\ [][NextDemes]_vars

\* Up to MaxDemes demes, and symmetric_migration() among them.
NextSym ==
    \/ DemeCall(MaxDemes, {None}, {<<>>})
    \/ SymmetricMigrationCall(MaxDemes + 1)

SpecSym == Init /\ [][NextSym]_vars

\* The builder API followed by the queries: a query can follow every graph the
\* builder calls leave behind, and another query.
NextQuery ==
    \/ DemeCall(MaxCalls, {None}, {<<>>})
    \/ MigrationCall(MaxCalls)
    \/ SymmetricMigrationCall(MaxCalls)
    \/ PulseCall(MaxCalls)
    \/ SubgraphCall(MaxCalls, {None}, {<<>>})
    \/ CheckTimeIntersectionCall(MaxCalls + 1)
    \/ AsdictCompactCall(MaxCalls + 1)

SpecQuery == Init /\ [][NextQuery]_vars

\* Chains of ancestry: deme() over the wider start times, and subgraph().
NextAncestry ==
    \/ ChainDemeCall(MaxCalls)
    \/ SubgraphCall(MaxDemeCalls, {None}, {<<>>})

SpecAncestry == Init /\ [][NextAncestry]_vars

(* ----------------------------- properties ----------------------------- *)

Raised == last.out # "ok"
Known(g, ids) == \A j \in 1..Len(ids) : Contains(g, ids[j])
Distinct(ids) == \A j, k \in 1..Len(ids) : j # k => ids[j] # ids[k]
NewDeme == demes[Len(demes)]

\* C1: in every deme of the graph, each epoch ends where the next one starts,
\* and each epoch starts before it ends.
C1_EpochsContiguousAndOrdered ==
    \A k \in 1..Len(demes) :
        LET e == demes[k].epochs
        IN  /\ \A j \in 1..(Len(e) - 1) : e[j].end_time = e[j + 1].start_time
            /\ \A j \in 1..Len(e) : e[j].start_time < e[j].end_time

\* C2: every Migration lies in the half-open interval, and every Pulse in the
\* closed interval, in which the demes registered under its source and dest
\* both exist.
C2_TimesWithinCoexistence ==
    /\ \A k \in 1..Len(migrations) :
        LET m == migrations[k]
        IN  /\ time_lo(Graph, m.source, m.dest) <= m.time
            /\ m.time < time_hi(Graph, m.source, m.dest)
    /\ \A k \in 1..Len(pulses) :
        LET p == pulses[k]
        IN  /\ time_lo(Graph, p.source, p.dest) <= p.time
            /\ p.time <= time_hi(Graph, p.source, p.dest)

\* C3: a builder call that fails with a validation error leaves the deme list,
\* the id index, the migration list and the pulse list as they were.
C3_FailedCallChangesNothing == last.out = "ValueError" => Graph = pre

\* C4: a builder call that names a deme id that is not in the graph is rejected
\* and leaves the deme list, the id index, the migrations and the pulses as
\* they were.
C4_UnknownIdRejectedBeforeMutation ==
    (last.op # "init" /\ ~Known(pre, last.args.refs)) => (Raised /\ Graph = pre)

\* C5: the compact form of a graph that has a deme, replayed through the
\* builder under the defaulting rules, gives a graph with the same full form.
C5_CompactRoundTrip ==
    Len(demes) > 0 =>
        LET r == expand(asdict_compact(Graph), default_Ne)
        IN  r.out = "ok" /\ asdict(r.g) = asdict(Graph)

\* The pulses subgraph() is to emit: ancestor j gets proportions[j] over the sum
\* of proportions[j:], at the end time of the new deme.
SubgraphPulses(id, ancestors, proportions, time) ==
    [j \in 1..Len(ancestors) |->
        PulseNew(id, ancestors[j], time,
                 Frac(proportions[j], sum(SubSeq(proportions, j, Len(proportions)))))]

\* C6: subgraph() on existing ancestors, with as many proportions summing to 1
\* and a new deme that meets every ancestor at its end time, completes and
\* appends one pulse per ancestor, renormalised over the proportions that
\* remain, the last of proportion 1.
C6_SubgraphRenormalises ==
    LET a == last.args
    IN  (/\ last.op = "subgraph"
         /\ Len(a.refs) >= 1 /\ Len(a.props) = Len(a.refs) /\ sum(a.props) = PropDen
         /\ Known(pre, a.refs)
         /\ Len(demes) = Len(pre.demes) + 1
         /\ \A j \in 1..Len(a.refs) :
               /\ a.refs[j] # a.id
               /\ GetItem(pre, a.refs[j]).ancestor # a.id
               /\ finite(deme_end_time(NewDeme))
               /\ deme_start_time(GetItem(pre, a.refs[j])) <= deme_end_time(NewDeme)
               /\ deme_end_time(NewDeme) <= deme_end_time(GetItem(pre, a.refs[j])))
        => /\ last.out = "ok"
           /\ pulses = pre.pulses \o SubgraphPulses(a.id, a.refs, a.props,
                                                    deme_end_time(NewDeme))
           /\ pulses[Len(pulses)].proportion = Frac(1, 1)

\* C7: after a successful deme() with an ancestor, the new deme ends where the
\* ancestor starts; and deme() with an ancestor that is not in the graph fails.
C7_DemeEndsWhereAncestorStarts ==
    (last.op = "deme" /\ last.args.refs # <<>>) =>
        IF last.out = "ok"
        THEN /\ Contains(pre, last.args.refs[1])
             /\ deme_end_time(NewDeme) = deme_start_time(GetItem(pre, last.args.refs[1]))
        ELSE TRUE

\* C8: no two demes of the list have the same id, and the id index maps every
\* id of the list, and nothing else, to the deme of the list with that id.
C8_UniqueIdsAndIndexAgrees ==
    /\ \A k, l \in 1..Len(demes) : k # l => demes[k].id # demes[l].id
    /\ DOMAIN deme_map = {demes[k].id : k \in 1..Len(demes)}
    /\ \A id \in DOMAIN deme_map :
          deme_map[id] \in 1..Len(demes) /\ demes[deme_map[id]].id = id

\* The records symmetric_migration appended.
Appended == SubSeq(migrations, Len(pre.migrations) + 1, Len(migrations))

\* C9: symmetric_migration() with no start_time and no end_time, on two or more
\* distinct ids of demes that pairwise coexist, appends n*(n-1) records: for
\* each ordered pair of distinct ids exactly one, at the pair's coexistence
\* lower bound and with the given rate, and changes nothing else; with fewer
\* than two ids it fails and changes nothing.
C9_SymmetricMigrationAllOrderedPairs ==
    LET a == last.args
        n == Len(a.refs)
    IN  last.op = "symmetric_migration" =>
          /\ n < 2 => (last.out = "ValueError" /\ Graph = pre)
          /\ (/\ n >= 2 /\ Distinct(a.refs) /\ Known(pre, a.refs)
              /\ a.start_time = None /\ a.end_time = None
              /\ \A j, k \in 1..n :
                    j # k => time_lo(pre, a.refs[j], a.refs[k])
                                < time_hi(pre, a.refs[j], a.refs[k]))
             => /\ last.out = "ok"
                /\ Len(migrations) = Len(pre.migrations) + n * (n - 1)
                /\ SubSeq(migrations, 1, Len(pre.migrations)) = pre.migrations
                /\ demes = pre.demes /\ deme_map = pre.deme_map /\ pulses = pre.pulses
                /\ \A j, k \in 1..n :
                      j # k =>
                        Cardinality({i \in 1..Len(Appended) :
                            /\ Appended[i].source = a.refs[j]
                            /\ Appended[i].dest = a.refs[k]}) = 1
                /\ \A i \in 1..Len(Appended) :
                      /\ Appended[i].source # Appended[i].dest
                      /\ Appended[i].rate = a.rate
                      /\ Appended[i].time =
                            time_lo(pre, Appended[i].source, Appended[i].dest)

\* C9 witness: three coexisting demes were joined by six records.
C9_Witness ==
    /\ last.op = "symmetric_migration" /\ last.out = "ok"
    /\ Len(last.args.refs) = 3 /\ Distinct(last.args.refs)
    /\ last.args.start_time = None /\ last.args.end_time = None
    /\ last.args.rate = 1
    /\ \A j, k \in 1..3 :
          j # k => time_lo(pre, last.args.refs[j], last.args.refs[k])
                      < time_hi(pre, last.args.refs[j], last.args.refs[k])
    /\ Len(migrations) = Len(pre.migrations) + 6

\* C10: pulse() between a deme and its registered ancestor fails with a
\* validation error and leaves the pulse list as it was; and no Pulse of the
\* graph joins a deme and the deme's registered ancestor.
C10_NoPulseAlongAncestry ==
    /\ (/\ last.op = "pulse" /\ Known(pre, last.args.refs)
        /\ \/ GetItem(pre, last.args.refs[1]).ancestor = last.args.refs[2]
           \/ GetItem(pre, last.args.refs[2]).ancestor = last.args.refs[1])
       => (last.out = "ValueError" /\ pulses = pre.pulses)
    /\ \A k \in 1..Len(pulses) :
          /\ GetItem(Graph, pulses[k].source).ancestor # pulses[k].dest
          /\ GetItem(Graph, pulses[k].dest).ancestor # pulses[k].source

RECURSIVE reaches_root(_, _, _)
reaches_root(g, deme_id, fuel) ==
    IF ~Contains(g, deme_id) THEN FALSE
    ELSE IF GetItem(g, deme_id).ancestor = NoneId THEN TRUE
    ELSE IF fuel = 0 THEN FALSE
    ELSE reaches_root(g, GetItem(g, deme_id).ancestor, fuel - 1)

\* C12: from every deme of the list, following ancestor ids through the id
\* index reaches a deme without ancestor; and every deme with an ancestor ends
\* where the deme registered under the ancestor's id starts.
C12_AncestryAcyclicAndMeets ==
    \A k \in 1..Len(demes) :
        demes[k].ancestor # NoneId =>
            /\ reaches_root(Graph, demes[k].ancestor, Len(demes))
            /\ deme_end_time(demes[k]) = deme_start_time(GetItem(Graph, demes[k].ancestor))
====
